---- MODULE Spec2Model ----
(***************************************************************************)
(* The interaction state machine of helium: EventManager (events.rs)      *)
(* consumes window events and the current layout, keeps one Element per   *)
(* widget id and invokes the registered EventFn callbacks.                *)
(***************************************************************************)
EXTENDS Integers, Sequences, FiniteSets, TLC

\* ---------------------------------------------------------------- bounds
\* A layout yields at most MaxNodes nodes from iter().
MaxNodes == 2
\* The EventContext holds at most MaxCallbacks callbacks when the manager is
\* built from it.
MaxCallbacks == 4

\* The longest text of a TextField.
MaxText == 4

\* ---------------------------------------------------------------- domains
Ids == {"a", "b"}

\* The window is a 2 x 2 grid of pointer positions.
Coord == {0, 1}
Position == [x : Coord, y : Coord]

\* enum ElementState { Default, Hovered, Clicked }
ElementState == {"Default", "Hovered", "Clicked"}

\* winit::event::ElementState and winit::event::MouseButton
ButtonState == {"Pressed", "Released"}
MouseButton == {"Left", "Right"}

\* enum EventFn { OnHover(String, _), OnClick(String, _) }
OnHover(id) == [trigger |-> "OnHover", id |-> id]
OnClick(id) == [trigger |-> "OnClick", id |-> id]

\* The callbacks the application registers with EventContext::add, in order.
Registrations ==
    <<OnHover("a"), OnClick("a"), OnHover("b"), OnHover("a"), OnClick("b"),
      OnClick("a")>>

\* EventContext: empty, or holding the first MaxCallbacks registrations.
EventContext == {<<>>, SubSeq(Registrations, 1, MaxCallbacks)}

SeqUpTo(S, n) == UNION {[1..k -> S] : k \in 0..n}

\* The nodes of the layout tree: id(), position(), size().  Two overlapping
\* widgets: a covers (0,0)-(1,0), b covers (1,0)-(1,1); (0,1) is outside both.
LayoutNode ==
    {[id |-> "a", position |-> [x |-> 0, y |-> 0], size |-> [width |-> 1, height |-> 0]],
     [id |-> "b", position |-> [x |-> 1, y |-> 0], size |-> [width |-> 0, height |-> 1]]}

\* What layout.iter() yields for one frame: the widgets present, in traversal
\* order; a widget may be yielded more than once.
Layout == SeqUpTo(LayoutNode, MaxNodes)

\* The layout the manager is built from: every widget of the tree once.
WidgetTree ==
    {l \in Layout : \A i, j \in DOMAIN l : l[i].id = l[j].id => i = j}

\* ---------------------------------------------------------------- geometry
\* Bounds::new(position, size): the closed intervals [x, x+width], [y, y+height].
Bounds_new(position, size) ==
    [x |-> <<position.x, position.x + size.width>>,
     y |-> <<position.y, position.y + size.height>>]

within(bounds, position) ==
    /\ bounds.x[1] <= position.x /\ position.x <= bounds.x[2]
    /\ bounds.y[1] <= position.y /\ position.y <= bounds.y[2]

\* ---------------------------------------------------------------- Element
\* Element::new() that drops its argument.
Element_new_no_id(id) ==
    [id |-> "", previous_state |-> "Default", state |-> "Default"]

Element_new(id) ==
    [id |-> id, previous_state |-> "Default", state |-> "Default"]

\* roll_back() that resets the element instead of restoring it.
roll_back_to_default(e) == [e EXCEPT !.state = "Default"]

roll_back(e) == [e EXCEPT !.state = e.previous_state]

\* default() that spares a pressed element.
default_keeps_clicked(e) ==
    IF e.state = "Clicked"
    THEN e
    ELSE [e EXCEPT !.previous_state = e.state, !.state = "Default"]

default(e) == [e EXCEPT !.previous_state = e.state, !.state = "Default"]

\* click() that forgets to record the state it leaves.
click_unrecorded(e) == [e EXCEPT !.state = "Clicked"]

click(e) == [e EXCEPT !.previous_state = e.state, !.state = "Clicked"]

\* hover() that forgets to set the state.
hover_keeps_state(e) == [e EXCEPT !.previous_state = "Default"]

hover(e) == [e EXCEPT !.previous_state = "Default", !.state = "Hovered"]

\* ---------------------------------------------------------------- EventFn
\* TRUE iff the call invokes the boxed closure.
\* run_hover() that does not compare the ids.
run_hover_any_id(callback, widget_id) ==
    callback.trigger = "OnHover"

run_hover(callback, widget_id) ==
    callback.trigger = "OnHover" /\ callback.id = widget_id

\* run_click() that also runs the hover closures of the widget.
run_click_any_trigger(callback, widget_id) ==
    callback.id = widget_id

run_click(callback, widget_id) ==
    callback.trigger = "OnClick" /\ callback.id = widget_id

\* ---------------------------------------------------------------- TextField
\* winit::keyboard::Key: Character carries a string (one or more chars), Named
\* a NamedKey; Dead stands for the remaining variants.
NoKey == [kind |-> "None", name |-> "", text |-> <<>>]
Character(str) == [kind |-> "Character", name |-> "", text |-> str]
Named(named_key) == [kind |-> "Named", name |-> named_key, text |-> <<>>]
NamedKey == {"Backspace", "Space", "Enter"}
Key ==
    {Character(<<"H">>), Character(<<"i">>), Character(<<"H", "i">>)}
        \cup {Named(n) : n \in NamedKey}
        \cup {[kind |-> "Dead", name |-> "", text |-> <<>>]}

\* String::push_str that inserts at the front.
push_str_front(string, str) == str \o string

\* String::push_str(&mut self, str)
push_str(string, str) == string \o str

\* String::pop that removes the first char.
pop_front(string) ==
    IF string = <<>> THEN string ELSE Tail(string)

\* String::pop(&mut self): removes the last char, nothing when empty.
pop(string) ==
    IF string = <<>> THEN string ELSE SubSeq(string, 1, Len(string) - 1)

\* TextField::new()
TextField_new == [text |-> <<>>, focused |-> FALSE]

\* Widget::unfocus for TextField
unfocus(field) == [field EXCEPT !.focused = FALSE]

\* Widget::click for TextField
TextField_click(field) == [field EXCEPT !.focused = TRUE]

\* process_key() without the early return of an unfocused field.
process_key_unfocused(field, key) ==
    IF key.kind = "Character"
    THEN [field EXCEPT !.text = push_str(@, key.text)]
    ELSE IF key.kind = "Named"
    THEN IF key.name = "Backspace"
         THEN [field EXCEPT !.text = pop(@)]
         ELSE IF key.name = "Space"
         THEN [field EXCEPT !.text = push_str(@, <<" ">>)]
         ELSE field
    ELSE field

\* Widget::process_key for TextField
process_key(field, key) ==
    IF ~field.focused
    THEN field
    ELSE IF key.kind = "Character"
    THEN [field EXCEPT !.text = push_str(@, key.text)]
    ELSE IF key.kind = "Named"
    THEN IF key.name = "Backspace"
         THEN [field EXCEPT !.text = pop(@)]
         ELSE IF key.name = "Space"
         THEN [field EXCEPT !.text = push_str(@, <<" ">>)]
         ELSE field
    ELSE field

\* ---------------------------------------------------------------- state
VARIABLES
    mouse_pos,   \* EventManager.mouse_pos
    elements,    \* EventManager.elements : Vec<Element>
    callbacks,   \* EventManager.callbacks : Vec<EventFn>
    panicked,    \* an unwrap() failed: process() unwound and did not return
    tree,        \* the layout EventManager::new was given
    event,       \* the event given to the last process() call; position is
                 \* <<p>> for an event that carries one, <<>> otherwise
    visits,      \* what the last process() call did, one record per layout node
    invoked,     \* the closures the last process() call ran, in order
    text_field,  \* a TextField: its text and focused fields
    call,        \* the last method called on text_field, with its key
    fired,       \* SpecFixed: the ids hovered by a pass that the pointer has
                 \* not left since
    last_button  \* SpecFixed: the button of the last MouseInput event

vars == <<mouse_pos, elements, callbacks, panicked, tree, event, visits, invoked,
          text_field, call, fired, last_button>>

NoCall == [op |-> "new", key |-> NoKey]

NoEvent == [kind |-> "None", state |-> "None", position |-> <<>>]

\* self.elements.iter_mut().find(|e| e.id == layout.id()): the index of the
\* first element with that id, 0 for None.
find(els, id) ==
    IF \E i \in DOMAIN els : els[i].id = id
    THEN CHOOSE i \in DOMAIN els :
            /\ els[i].id = id
            /\ \A j \in DOMAIN els : els[j].id = id => i <= j
    ELSE 0

\* The loop over self.callbacks.iter_mut().rev(): last added runs first.
hover_callbacks_rev(cbs, widget_id) ==
    SelectSeq([i \in DOMAIN cbs |->
                  [callback |-> Len(cbs) + 1 - i, widget_id |-> widget_id]],
              LAMBDA c : run_hover(cbs[c.callback], widget_id))

\* for callback in &mut self.callbacks { callback.run_hover(layout.id()) }
hover_callbacks(cbs, widget_id) ==
    SelectSeq([i \in DOMAIN cbs |-> [callback |-> i, widget_id |-> widget_id]],
              LAMBDA c : run_hover(cbs[c.callback], widget_id))

\* for callback in &mut self.callbacks { callback.run_click(layout.id()) }
click_callbacks(cbs, widget_id) ==
    SelectSeq([i \in DOMAIN cbs |-> [callback |-> i, widget_id |-> widget_id]],
              LAMBDA c : run_click(cbs[c.callback], widget_id))

\* The calls `calls` made in turn by a callback loop: (func)() of a closure in
\* st.failing panics, which ends the loop and unwinds out of process(); the
\* closures before it have run, the ones after it have not.
run_callbacks(st, calls) ==
    LET bad == {n \in DOMAIN calls : calls[n].callback \in st.failing}
    IN  IF bad = {}
        THEN [st EXCEPT !.invoked = @ \o calls]
        ELSE LET n == CHOOSE m \in bad : \A o \in bad : m <= o
             IN  [st EXCEPT !.invoked = @ \o SubSeq(calls, 1, n),
                            !.panicked = TRUE]

\* One record of visits: the node's id, the index of the element found for it,
\* the outcome of the hit test (FALSE when none is made) and the Element
\* method called ("none" when the element is left alone).
Visit(layout, i, hit, op) ==
    [id |-> layout.id, index |-> i, hit |-> hit, op |-> op]

\* process_hover() without the match on element.state: every hit hovers.
process_hover_every_hit(st, layout) ==
    LET bounds == Bounds_new(layout.position, layout.size)
        i == find(st.elements, layout.id)
    IN  IF i = 0
        THEN [st EXCEPT !.panicked = TRUE]
        ELSE LET element == st.elements[i]
                 hit == within(bounds, st.mouse_pos)
             IN  IF hit
                 THEN [st EXCEPT
                         !.elements[i] = hover(element),
                         !.invoked = @ \o hover_callbacks(st.callbacks, layout.id),
                         !.visits = Append(@, Visit(layout, i, hit, "hover"))]
                 ELSE [st EXCEPT
                         !.elements[i] = default(element),
                         !.visits = Append(@, Visit(layout, i, hit, "default"))]

\* process_hover() with z-order occlusion: a hit hovers the element only while
\* no other element is Hovered.
process_hover_occluded(st, layout) ==
    LET bounds == Bounds_new(layout.position, layout.size)
        i == find(st.elements, layout.id)
    IN  IF i = 0
        THEN [st EXCEPT !.panicked = TRUE]
        ELSE LET element == st.elements[i]
                 hit == within(bounds, st.mouse_pos)
                 covered == \E j \in DOMAIN st.elements :
                                j # i /\ st.elements[j].state = "Hovered"
             IN  IF hit
                 THEN IF element.state = "Default" /\ ~covered
                      THEN [st EXCEPT
                              !.elements[i] = hover(element),
                              !.invoked = @ \o hover_callbacks(st.callbacks, layout.id),
                              !.visits = Append(@, Visit(layout, i, hit, "hover"))]
                      ELSE [st EXCEPT
                              !.visits = Append(@, Visit(layout, i, hit, "none"))]
                 ELSE [st EXCEPT
                         !.elements[i] = default(element),
                         !.visits = Append(@, Visit(layout, i, hit, "default"))]

\* EventManager::process_hover on one layout node; st is the manager during
\* the pass.
process_hover(st, layout) ==
    LET bounds == Bounds_new(layout.position, layout.size)
        i == find(st.elements, layout.id)
    IN  IF i = 0
        THEN [st EXCEPT !.panicked = TRUE]
        ELSE LET element == st.elements[i]
                 hit == within(bounds, st.mouse_pos)
             IN  IF hit
                 THEN IF element.state = "Default"
                      THEN run_callbacks(
                               [st EXCEPT
                                  !.elements[i] = hover(element),
                                  !.visits = Append(@, Visit(layout, i, hit, "hover"))],
                               hover_callbacks(st.callbacks, layout.id))
                      ELSE [st EXCEPT
                              !.visits = Append(@, Visit(layout, i, hit, "none"))]
                 ELSE [st EXCEPT
                         !.elements[i] = default(element),
                         !.visits = Append(@, Visit(layout, i, hit, "default"))]

\* process_mouse() with element.click() moved into the callback loop: a press
\* clicks the element only when a closure runs for it.
process_mouse_click_in_callback(st, layout, state, button) ==
    LET i == find(st.elements, layout.id)
    IN  IF i = 0
        THEN [st EXCEPT !.panicked = TRUE]
        ELSE LET element == st.elements[i]
                 ran == click_callbacks(st.callbacks, layout.id)
             IN  IF state = "Pressed"
                 THEN IF element.state = "Hovered"
                      THEN [st EXCEPT
                              !.elements[i] = IF ran # <<>> THEN click(element)
                                              ELSE element,
                              !.invoked = @ \o ran,
                              !.visits = Append(@, Visit(layout, i, FALSE, "click"))]
                      ELSE [st EXCEPT
                              !.visits = Append(@, Visit(layout, i, FALSE, "none"))]
                 ELSE [st EXCEPT
                         !.elements[i] = roll_back(element),
                         !.visits = Append(@, Visit(layout, i, FALSE, "roll_back"))]

\* process_mouse() that acts on the left button only.
process_mouse_left_only(st, layout, state, button) ==
    LET i == find(st.elements, layout.id)
    IN  IF i = 0
        THEN [st EXCEPT !.panicked = TRUE]
        ELSE LET element == st.elements[i]
             IN  IF button # "Left"
                 THEN [st EXCEPT
                         !.visits = Append(@, Visit(layout, i, FALSE, "none"))]
                 ELSE IF state = "Pressed"
                 THEN IF element.state = "Hovered"
                      THEN [st EXCEPT
                              !.elements[i] = click(element),
                              !.invoked = @ \o click_callbacks(st.callbacks, layout.id),
                              !.visits = Append(@, Visit(layout, i, FALSE, "click"))]
                      ELSE [st EXCEPT
                              !.visits = Append(@, Visit(layout, i, FALSE, "none"))]
                 ELSE [st EXCEPT
                         !.elements[i] = roll_back(element),
                         !.visits = Append(@, Visit(layout, i, FALSE, "roll_back"))]

\* process_mouse() with `if let Some(element)` in place of unwrap(): a node
\* without an Element is skipped.
process_mouse_skips_unknown(st, layout, state, button) ==
    LET i == find(st.elements, layout.id)
    IN  IF i = 0
        THEN st
        ELSE LET element == st.elements[i]
             IN  IF state = "Pressed"
                 THEN IF element.state = "Hovered"
                      THEN [st EXCEPT
                              !.elements[i] = click(element),
                              !.invoked = @ \o click_callbacks(st.callbacks, layout.id),
                              !.visits = Append(@, Visit(layout, i, FALSE, "click"))]
                      ELSE [st EXCEPT
                              !.visits = Append(@, Visit(layout, i, FALSE, "none"))]
                 ELSE [st EXCEPT
                         !.elements[i] = roll_back(element),
                         !.visits = Append(@, Visit(layout, i, FALSE, "roll_back"))]

\* EventManager::process_mouse on one layout node.
process_mouse(st, layout, state, button) ==
    LET i == find(st.elements, layout.id)
    IN  IF i = 0
        THEN [st EXCEPT !.panicked = TRUE]
        ELSE LET element == st.elements[i]
             IN  IF state = "Pressed"
                 THEN IF element.state = "Hovered"
                      THEN run_callbacks(
                               [st EXCEPT
                                  !.elements[i] = click(element),
                                  !.visits = Append(@, Visit(layout, i, FALSE, "click"))],
                               click_callbacks(st.callbacks, layout.id))
                      ELSE [st EXCEPT
                              !.visits = Append(@, Visit(layout, i, FALSE, "none"))]
                 ELSE [st EXCEPT
                         !.elements[i] = roll_back(element),
                         !.visits = Append(@, Visit(layout, i, FALSE, "roll_back"))]

\* The loop with a registry sync that pushes an Element for every node without
\* looking for one first.
RECURSIVE hover_pass_inserting(_, _)
hover_pass_inserting(st, nodes) ==
    IF nodes = <<>> \/ st.panicked
    THEN st
    ELSE hover_pass_inserting(
             process_hover([st EXCEPT
                               !.elements = Append(@, Element_new(Head(nodes).id))],
                           Head(nodes)),
             Tail(nodes))

\* for layout in layout.iter() { self.process_hover(layout) }; a panic unwinds
\* out of the loop.
RECURSIVE hover_pass(_, _)
hover_pass(st, nodes) ==
    IF nodes = <<>> \/ st.panicked
    THEN st
    ELSE hover_pass(process_hover(st, Head(nodes)), Tail(nodes))

\* The loop followed by a reset of every element the layout did not name.
RECURSIVE mouse_pass_resets_stale(_, _, _, _)
mouse_pass_resets_stale(st, nodes, state, button) ==
    IF st.panicked
    THEN st
    ELSE IF nodes = <<>>
    THEN [st EXCEPT
            !.elements = [i \in DOMAIN @ |->
                IF \E k \in DOMAIN st.visits : st.visits[k].index = i
                THEN @[i]
                ELSE default(@[i])]]
    ELSE mouse_pass_resets_stale(process_mouse(st, Head(nodes), state, button),
                                 Tail(nodes), state, button)

\* for layout in layout.iter() { self.process_mouse(layout, state, button) }
RECURSIVE mouse_pass(_, _, _, _)
mouse_pass(st, nodes, state, button) ==
    IF nodes = <<>> \/ st.panicked
    THEN st
    ELSE mouse_pass(process_mouse(st, Head(nodes), state, button),
                    Tail(nodes), state, button)

\* The manager of a pass that did not store the event's position.
Manager_keeps_pos(pos) ==
    [mouse_pos |-> mouse_pos, elements |-> elements, callbacks |-> callbacks,
     invoked |-> <<>>, visits |-> <<>>, panicked |-> FALSE, failing |-> {}]

\* The manager during a pass: process() stores the event's position, if it has
\* one, before it walks the layout.
Manager(pos) ==
    [mouse_pos |-> pos, elements |-> elements, callbacks |-> callbacks,
     invoked |-> <<>>, visits |-> <<>>, panicked |-> FALSE, failing |-> {}]

\* The manager during a pass in which the closures at the positions in failing
\* panic when called.
ManagerFailing(pos, failing) == [Manager(pos) EXCEPT !.failing = failing]

\* EventManager::new(cx, layout)
Init ==
    \E cx \in EventContext, layout \in WidgetTree :
        /\ elements = [i \in DOMAIN layout |-> Element_new(layout[i].id)]
        /\ mouse_pos = [x |-> 0, y |-> 0]
        /\ callbacks = cx
        /\ panicked = FALSE
        /\ tree = layout
        /\ event = NoEvent
        /\ visits = <<>>
        /\ invoked = <<>>
        /\ text_field = TextField_new
        /\ call = NoCall
        /\ fired = {}
        /\ last_button = "None"

\* process() with a registry of FnOnce closures, consumed when they run.
Commit_drains(st, ev) ==
    /\ mouse_pos' = st.mouse_pos
    /\ elements' = st.elements
    /\ panicked' = st.panicked
    /\ visits' = st.visits
    /\ invoked' = st.invoked
    /\ event' = ev
    /\ callbacks' = IF st.invoked # <<>> THEN <<>> ELSE callbacks
    /\ UNCHANGED <<tree, text_field, call, fired, last_button>>

\* What a process() call leaves behind; it has no write to self.callbacks.
Commit(st, ev) ==
    /\ mouse_pos' = st.mouse_pos
    /\ elements' = st.elements
    /\ panicked' = st.panicked
    /\ visits' = st.visits
    /\ invoked' = st.invoked
    /\ event' = ev
    /\ UNCHANGED <<callbacks, tree, text_field, call, fired, last_button>>

\* process(WindowEvent::CursorMoved { position, .. }, layout)
CursorMoved(position, layout) ==
    /\ ~panicked
    /\ Commit(hover_pass(Manager(position), layout),
              [kind |-> "CursorMoved", state |-> "None", position |-> <<position>>])

\* process(WindowEvent::MouseInput { state, button, .. }, layout)
MouseInput(state, button, layout) ==
    /\ ~panicked
    /\ Commit(mouse_pass(Manager(mouse_pos), layout, state, button),
              [kind |-> "MouseInput", state |-> state, position |-> <<>>])

\* process() with a catch-all arm that treats the event as a button release.
OtherEvent_as_release(layout) ==
    /\ ~panicked
    /\ Commit(mouse_pass(Manager(mouse_pos), layout, "Released", "Left"),
              [kind |-> "Other", state |-> "None", position |-> <<>>])

\* process(any other WindowEvent, layout)
OtherEvent(layout) ==
    /\ ~panicked
    /\ Commit(Manager(mouse_pos),
              [kind |-> "Other", state |-> "None", position |-> <<>>])

Next ==
    \E layout \in Layout :
        \/ \E position \in Position : CursorMoved(position, layout)
        \/ \E state \in ButtonState, button \in MouseButton :
              MouseInput(state, button, layout)
        \/ OtherEvent(layout)

Spec == Init /\ [][Next]_vars

\* The closures that may panic during one process() call: none, or any one of
\* the registered closures.
Failures == {{}} \cup {{c} : c \in DOMAIN callbacks}

\* process(CursorMoved) during which the closures in failing panic.
CursorMovedFailing(position, layout, failing) ==
    /\ ~panicked
    /\ Commit(hover_pass(ManagerFailing(position, failing), layout),
              [kind |-> "CursorMoved", state |-> "None", position |-> <<position>>])

\* process(MouseInput) during which the closures in failing panic.
MouseInputFailing(state, button, layout, failing) ==
    /\ ~panicked
    /\ Commit(mouse_pass(ManagerFailing(mouse_pos, failing), layout, state, button),
              [kind |-> "MouseInput", state |-> state, position |-> <<>>])

NextFailing ==
    \E layout \in Layout :
        \/ \E position \in Position, failing \in Failures :
              CursorMovedFailing(position, layout, failing)
        \/ \E state \in ButtonState, button \in MouseButton, failing \in Failures :
              MouseInputFailing(state, button, layout, failing)
        \/ OtherEvent(layout)

\* The manager with closures that may panic.
SpecFailing == Init /\ [][NextFailing]_vars

\* ---------------------------------------------------------------- fixed layout
\* The manager given, with every event, the layout it was built from.
\* The pointer is inside the bounds of the tree's node with that id.
in_bounds(id, position) ==
    \E k \in DOMAIN tree :
        /\ tree[k].id = id
        /\ within(Bounds_new(tree[k].position, tree[k].size), position)

\* The ids the pass st hovered.
hovered_by(st) ==
    {st.visits[k].id : k \in {n \in DOMAIN st.visits : st.visits[n].op = "hover"}}

CommitFixed(st, ev, hovers, pressed) ==
    /\ mouse_pos' = st.mouse_pos
    /\ elements' = st.elements
    /\ panicked' = st.panicked
    /\ visits' = st.visits
    /\ invoked' = st.invoked
    /\ event' = ev
    /\ fired' = hovers
    /\ last_button' = pressed
    /\ UNCHANGED <<callbacks, tree, text_field, call>>

\* process(CursorMoved { position }, layout) with the constructor's layout
CursorMovedFixed(position) ==
    LET st == hover_pass(Manager(position), tree)
    IN  /\ ~panicked
        /\ CommitFixed(st,
                       [kind |-> "CursorMoved", state |-> "None",
                        position |-> <<position>>],
                       {id \in fired : in_bounds(id, position)} \cup hovered_by(st),
                       last_button)

\* process(MouseInput { state, button }, layout) with the constructor's layout
MouseInputFixed(state, pressed) ==
    /\ ~panicked
    /\ CommitFixed(mouse_pass(Manager(mouse_pos), tree, state, pressed),
                   [kind |-> "MouseInput", state |-> state, position |-> <<>>],
                   fired, pressed)

NextFixed ==
    \/ \E position \in Position : CursorMovedFixed(position)
    \/ \E state \in ButtonState, pressed \in MouseButton :
          MouseInputFixed(state, pressed)

SpecFixed == Init /\ [][NextFixed]_vars

\* ---------------------------------------------------------------- TextField
\* TextField::new(), next to a manager that takes no events.
InitTextField ==
    /\ text_field = TextField_new
    /\ call = NoCall
    /\ fired = {}
    /\ last_button = "None"
    /\ elements = <<>>
    /\ mouse_pos = [x |-> 0, y |-> 0]
    /\ callbacks = <<>>
    /\ panicked = FALSE
    /\ tree = <<>>
    /\ event = NoEvent
    /\ visits = <<>>
    /\ invoked = <<>>

Called(field, op, key) ==
    /\ text_field' = field
    /\ call' = [op |-> op, key |-> key]
    /\ UNCHANGED <<mouse_pos, elements, callbacks, panicked, tree, event, visits,
                   invoked, fired, last_button>>

\* text_field.click()
Click == Called(TextField_click(text_field), "click", NoKey)

\* text_field.unfocus()
Unfocus == Called(unfocus(text_field), "unfocus", NoKey)

\* text_field.process_key(&key); texts longer than MaxText are not explored.
ProcessKey(key) ==
    /\ Len(process_key(text_field, key).text) <= MaxText
    /\ Called(process_key(text_field, key), "process_key", key)

NextTextField ==
    \/ Click
    \/ Unfocus
    \/ \E key \in Key : ProcessKey(key)

SpecTextField == InitTextField /\ [][NextTextField]_vars

\* ---------------------------------------------------------------- claims
\* How often the last pass ran callback c on behalf of widget id.
Calls(inv, c, id) ==
    Cardinality({k \in DOMAIN inv : inv[k] = [callback |-> c, widget_id |-> id]})

\* The step is a process() call of that kind that returned.
CursorPass == event'.kind = "CursorMoved" /\ ~panicked'
PressPass == event'.kind = "MouseInput" /\ event'.state = "Pressed" /\ ~panicked'
ReleasePass == event'.kind = "MouseInput" /\ event'.state = "Released" /\ ~panicked'

\* C1: a CursorMoved inside the bounds of a widget that is Default makes it
\* Hovered and runs each OnHover callback of its id exactly once, and no
\* OnClick callback and no callback of another id on its behalf.
C1_HoverOnEnter ==
    [][CursorPass =>
        \A k \in DOMAIN visits' :
            (visits'[k].hit /\ elements[visits'[k].index].state = "Default") =>
                /\ elements'[visits'[k].index].state = "Hovered"
                /\ \A c \in DOMAIN callbacks :
                      Calls(invoked', c, visits'[k].id) =
                          IF callbacks[c] = OnHover(visits'[k].id) THEN 1 ELSE 0]_vars

C1_Witness ==
    /\ event.kind = "CursorMoved" /\ ~panicked
    /\ \E k \in DOMAIN visits :
          /\ visits[k].hit /\ visits[k].op = "hover"
          /\ elements[visits[k].index].state = "Hovered"
          /\ \E c, d, o \in DOMAIN callbacks :
                /\ callbacks[c] = OnHover(visits[k].id)
                /\ callbacks[d] = OnClick(visits[k].id)
                /\ callbacks[o].id # visits[k].id
                /\ Calls(invoked, c, visits[k].id) = 1
                /\ Calls(invoked, d, visits[k].id) = 0
                /\ Calls(invoked, o, visits[k].id) = 0

\* C2: a button press makes a Hovered widget Clicked and runs each OnClick
\* callback of its id exactly once; a Default or Clicked widget is left as it
\* is and no callback runs for it.
C2_PressClicksHovered ==
    [][PressPass =>
        \A k \in DOMAIN visits' :
            LET i == visits'[k].index
                id == visits'[k].id
            IN  /\ elements[i].state = "Hovered" =>
                      /\ elements'[i].state = "Clicked"
                      /\ \A c \in DOMAIN callbacks :
                            Calls(invoked', c, id) =
                                IF callbacks[c] = OnClick(id) THEN 1 ELSE 0
                /\ elements[i].state # "Hovered" =>
                      /\ elements'[i] = elements[i]
                      /\ \A c \in DOMAIN callbacks : Calls(invoked', c, id) = 0]_vars

C2_Witness ==
    /\ event.kind = "MouseInput" /\ event.state = "Pressed" /\ ~panicked
    /\ \E k, n \in DOMAIN visits :
          /\ visits[k].op = "click"
          /\ elements[visits[k].index].state = "Clicked"
          /\ \E c \in DOMAIN callbacks :
                /\ callbacks[c] = OnClick(visits[k].id)
                /\ Calls(invoked, c, visits[k].id) = 1
          /\ visits[n].op = "none"
          /\ elements[visits[n].index].state = "Default"

\* C3: a button release delivered to a Clicked widget sets its state to its
\* previous_state, which is the Hovered recorded when it was clicked.
C3_ReleaseRestores ==
    [][ReleasePass =>
        \A k \in DOMAIN visits' :
            LET i == visits'[k].index
            IN  elements[i].state = "Clicked" =>
                    /\ elements[i].previous_state = "Hovered"
                    /\ elements'[i].state = elements[i].previous_state]_vars

\* C4: a button release leaves every widget that is not Clicked in its state
\* (Default stays Default, Hovered stays Hovered) and runs no callback.
C4_ReleaseOnlyTouchesClicked ==
    [][ReleasePass =>
        /\ invoked' = <<>>
        /\ \A k \in DOMAIN visits' :
              LET i == visits'[k].index
              IN  elements[i].state # "Clicked" =>
                      elements'[i].state = elements[i].state]_vars

\* C5: a CursorMoved outside a widget's bounds leaves it Default whatever its
\* state was, and runs no callback for it.
C5_LeaveResets ==
    [][CursorPass =>
        \A k \in DOMAIN visits' :
            ~visits'[k].hit =>
                /\ elements'[visits'[k].index].state = "Default"
                /\ \A c \in DOMAIN callbacks :
                      Calls(invoked', c, visits'[k].id) = 0]_vars

C5_Witness ==
    /\ event.kind = "CursorMoved" /\ ~panicked
    /\ \E k \in DOMAIN visits :
          /\ ~visits[k].hit /\ visits[k].op = "default"
          /\ elements[visits[k].index].state = "Default"
          /\ elements[visits[k].index].previous_state = "Clicked"
          /\ \E c \in DOMAIN callbacks : callbacks[c].id = visits[k].id

\* C6: every change of an element's state in one process() call is an edge of
\* the transition table: Default -> Hovered on a CursorMoved inside,
\* Hovered/Clicked -> Default on a CursorMoved outside, Hovered -> Clicked on
\* a press, Clicked -> previous_state on a release.
C6_OnlyTableEdges ==
    [][\A i \in DOMAIN elements :
        elements'[i].state # elements[i].state =>
            LET from == elements[i].state
                to == elements'[i].state
                inside == \E k \in DOMAIN visits' :
                              visits'[k].index = i /\ visits'[k].hit
                outside == \E k \in DOMAIN visits' :
                              visits'[k].index = i /\ ~visits'[k].hit
            IN  \/ /\ from = "Default" /\ to = "Hovered"
                   /\ event'.kind = "CursorMoved" /\ inside
                \/ /\ from \in {"Hovered", "Clicked"} /\ to = "Default"
                   /\ event'.kind = "CursorMoved" /\ outside
                \/ /\ from = "Hovered" /\ to = "Clicked"
                   /\ event'.kind = "MouseInput" /\ event'.state = "Pressed"
                \/ /\ from = "Clicked" /\ to = elements[i].previous_state
                   /\ event'.kind = "MouseInput" /\ event'.state = "Released"]_vars

\* C7: a press delivered to a Hovered widget makes it Clicked and runs its
\* OnClick callbacks once each; a release that follows at once makes it
\* Hovered again and runs nothing.
C7_PressThenRelease ==
    [][/\ PressPass =>
            \A k \in DOMAIN visits' :
                LET i == visits'[k].index
                    id == visits'[k].id
                IN  elements[i].state = "Hovered" =>
                        /\ elements'[i].state = "Clicked"
                        /\ \A c \in DOMAIN callbacks :
                              Calls(invoked', c, id) =
                                  IF callbacks[c] = OnClick(id) THEN 1 ELSE 0
       /\ (/\ event.kind = "MouseInput" /\ event.state = "Pressed" /\ ~panicked
           /\ ReleasePass) =>
            \A k \in DOMAIN visits, n \in DOMAIN visits' :
                (visits[k].op = "click" /\ visits'[n].index = visits[k].index) =>
                    /\ elements'[visits[k].index].state = "Hovered"
                    /\ invoked' = <<>>]_vars

C7_Witness ==
    /\ event.kind = "MouseInput" /\ event.state = "Released" /\ ~panicked
    /\ invoked = <<>>
    /\ \E k \in DOMAIN visits :
          /\ visits[k].op = "roll_back"
          /\ elements[visits[k].index].state = "Hovered"
          /\ elements[visits[k].index].previous_state = "Hovered"
          /\ \E c \in DOMAIN callbacks : callbacks[c] = OnClick(visits[k].id)

\* C8: a CursorMoved inside the bounds of a widget that is Hovered or Clicked
\* leaves its element as it is and runs no callback for it.
C8_HoverIdempotent ==
    [][CursorPass =>
        \A k \in DOMAIN visits' :
            LET i == visits'[k].index
            IN  (visits'[k].hit /\ elements[i].state \in {"Hovered", "Clicked"}) =>
                    /\ elements'[i] = elements[i]
                    /\ \A c \in DOMAIN callbacks :
                          Calls(invoked', c, visits'[k].id) = 0]_vars

C8_Witness ==
    /\ event.kind = "CursorMoved" /\ ~panicked
    /\ \E k \in DOMAIN visits :
          /\ visits[k].hit /\ visits[k].op = "none"
          /\ elements[visits[k].index].state = "Clicked"
          /\ \E c \in DOMAIN callbacks :
                /\ callbacks[c] = OnHover(visits[k].id)
                /\ Calls(invoked, c, visits[k].id) = 0

OpsOn(i, vs) ==
    SelectSeq(vs, LAMBDA v : v.index = i /\ v.op # "none")

Apply(op, e) ==
    CASE op = "hover" -> hover(e)
      [] op = "default" -> default(e)
      [] op = "click" -> click(e)
      [] op = "roll_back" -> roll_back(e)

\* The state element e had right before the last of ops that is in recorded;
\* was when there is none.
RECURSIVE StateBeforeLast(_, _, _, _)
StateBeforeLast(e, ops, recorded, was) ==
    IF ops = <<>>
    THEN was
    ELSE StateBeforeLast(Apply(Head(ops).op, e), Tail(ops), recorded,
                         IF Head(ops).op \in recorded THEN e.state ELSE was)

\* C10 as claimed: previous_state is the state the element had right before
\* its most recent transition, be it by hover, click, default or roll_back.
C10_PreviousIsPriorState ==
    [][\A i \in DOMAIN elements :
        elements'[i].previous_state =
            StateBeforeLast(elements[i], OpsOn(i, visits'),
                            {"hover", "click", "default", "roll_back"},
                            elements[i].previous_state)]_vars

\* C10 amended: previous_state is the state the element had right before its
\* most recent hover, click or default; roll_back leaves previous_state alone.
C10_PreviousIsRecordedState ==
    [][\A i \in DOMAIN elements :
        elements'[i].previous_state =
            StateBeforeLast(elements[i], OpsOn(i, visits'),
                            {"hover", "click", "default"},
                            elements[i].previous_state)]_vars

C10_Witness ==
    /\ event.kind = "MouseInput" /\ event.state = "Released"
    /\ \E k \in DOMAIN visits :
          /\ visits[k].op = "roll_back"
          /\ elements[visits[k].index].state = "Clicked"
          /\ elements[visits[k].index].previous_state = "Clicked"

\* C11: built from a layout with pairwise distinct ids, the registry never
\* holds two Elements with the same id, whatever events were processed.
C11_OneElementPerId ==
    \A i, j \in DOMAIN elements : elements[i].id = elements[j].id => i = j

C11_Witness ==
    /\ Len(elements) = 2
    /\ event.kind = "MouseInput"
    /\ \E k, n \in DOMAIN visits : k # n /\ visits[k].id = visits[n].id
    /\ \E i \in DOMAIN elements : elements[i].state = "Clicked"

\* C12: right after EventManager::new, before any event, the registry holds
\* one Element per node of the layout, in order, each Default with
\* previous_state Default, and no callback has run.
C12_FreshRegistry ==
    event.kind = "None" =>
        /\ Len(elements) = Len(tree)
        /\ \A i \in DOMAIN tree :
              elements[i] = [id |-> tree[i].id, previous_state |-> "Default",
                             state |-> "Default"]
        /\ invoked = <<>>
        /\ ~panicked

C12_Witness ==
    /\ event.kind = "None"
    /\ Len(tree) = 2
    /\ callbacks # <<>>

\* C13: a widget id that is in the event's layout but not in the registry gets
\* an Element inserted before dispatch, so no lookup ever fails and no
\* process() call panics.
C13_LookupNeverFails == ~panicked

\* The first node of the layout whose id has no Element, 0 when all have one.
FirstUnknown(layout) ==
    IF \A k \in DOMAIN layout : find(elements, layout[k].id) # 0
    THEN 0
    ELSE CHOOSE k \in DOMAIN layout :
             /\ find(elements, layout[k].id) = 0
             /\ \A j \in 1..(k - 1) : find(elements, layout[j].id) # 0

\* The pass stopped at node k by a panic, leaving what the pass over the k-1
\* nodes before it leaves.
AbortsAt(aborted, prefix, k) ==
    /\ aborted.panicked
    /\ ~prefix.panicked
    /\ Len(aborted.visits) = k - 1
    /\ aborted.elements = prefix.elements
    /\ aborted.visits = prefix.visits
    /\ aborted.invoked = prefix.invoked

\* C14: from every manager that can take an event, a cursor or mouse pass over
\* a layout with a node that has no Element panics at the first such node
\* instead of skipping it, and the nodes before it keep the changes the pass
\* made to them.
C14_UnknownIdFailsFast ==
    ~panicked => \A layout \in Layout :
        LET k == FirstUnknown(layout)
            before == SubSeq(layout, 1, k - 1)
        IN  k # 0 =>
              /\ \A position \in Position :
                    AbortsAt(hover_pass(Manager(position), layout),
                             hover_pass(Manager(position), before), k)
              /\ \A state \in ButtonState, button \in MouseButton :
                    AbortsAt(mouse_pass(Manager(mouse_pos), layout, state, button),
                             mouse_pass(Manager(mouse_pos), before, state, button), k)

C14_Witness ==
    /\ panicked
    /\ event.kind = "MouseInput"
    /\ Len(visits) = 1
    /\ visits[1].op = "click"
    /\ elements[visits[1].index].state = "Clicked"

\* The positions from c on at which registration reg was added, ascending.
RECURSIVE AddedAt(_, _)
AddedAt(reg, c) ==
    IF c > Len(callbacks)
    THEN <<>>
    ELSE (IF callbacks[c] = reg THEN <<c>> ELSE <<>>) \o AddedAt(reg, c + 1)

\* The closure calls the visits vs ask for: a hover runs the OnHover closures
\* of the node's id, a click its OnClick closures, in the order of add().
RECURSIVE ExpectedCalls(_)
ExpectedCalls(vs) ==
    IF vs = <<>>
    THEN <<>>
    ELSE LET v == Head(vs)
             added == IF v.op = "hover" THEN AddedAt(OnHover(v.id), 1)
                      ELSE IF v.op = "click" THEN AddedAt(OnClick(v.id), 1)
                      ELSE <<>>
         IN  [n \in DOMAIN added |-> [callback |-> added[n], widget_id |-> v.id]]
                 \o ExpectedCalls(Tail(vs))

\* C15: the closures a process() call runs are, for each node it hovers or
\* clicks in turn, all closures added for that id and trigger, each once, in
\* the order of add(); closures of other ids or of the other trigger that sit
\* between them in the list are passed over.
C15_AllInAddOrder == invoked = ExpectedCalls(visits)

C15_Witness ==
    /\ event.kind = "CursorMoved"
    /\ Len(callbacks) >= 4
    /\ callbacks[2] = OnClick("a")
    /\ callbacks[3] = OnHover("b")
    /\ \E n \in DOMAIN invoked :
          /\ n + 1 \in DOMAIN invoked
          /\ invoked[n] = [callback |-> 1, widget_id |-> "a"]
          /\ invoked[n + 1] = [callback |-> 4, widget_id |-> "a"]

\* C16: a CursorMoved event leaves mouse_pos at the event's position, whether
\* or not any node is hit; an event of any other kind leaves mouse_pos as it
\* was.
C16_PointerFollowsCursor ==
    [][/\ event'.kind = "CursorMoved" => mouse_pos' = event'.position[1]
       /\ event'.kind # "CursorMoved" => mouse_pos' = mouse_pos]_vars

C16_Witness ==
    /\ event.kind = "CursorMoved"
    /\ mouse_pos = [x |-> 0, y |-> 1]
    /\ ~panicked
    /\ Len(visits) = 2
    /\ \A k \in DOMAIN visits : ~visits[k].hit

\* C17: an event that is neither CursorMoved nor MouseInput changes no
\* Element, not mouse_pos, runs no closure and does not fail.
C17_OtherEventsIgnored ==
    [][event'.kind = "Other" =>
          /\ elements' = elements
          /\ mouse_pos' = mouse_pos
          /\ invoked' = <<>>
          /\ ~panicked']_vars

C17_Witness ==
    /\ event.kind = "Other"
    /\ callbacks # <<>>
    /\ mouse_pos = [x |-> 1, y |-> 0]
    /\ \E i \in DOMAIN elements : elements[i].state = "Clicked"
    /\ \E i \in DOMAIN elements : elements[i].state = "Hovered"

\* The layout with nodes k and k+1 traversed in the other order; every
\* traversal order of a layout is reached by such exchanges.
Exchanged(layout, k) ==
    [layout EXCEPT ![k] = layout[k + 1], ![k + 1] = layout[k]]

\* C18: from every manager that can take an event, a cursor pass over a layout
\* whose ids all have an Element returns and leaves each visited element in
\* the state its own prior state and its own hit test give (hit and Default:
\* Hovered, whatever other elements overlap it; hit otherwise: as it was;
\* missed: Default), leaves the others alone, and leaves the same elements for
\* every order of the layout's nodes.
C18_HitTestsIndependent ==
    ~panicked =>
        \A layout \in Layout :
            (\A k \in DOMAIN layout : find(elements, layout[k].id) # 0) =>
                /\ \A position \in Position :
                      LET r == hover_pass(Manager(position), layout)
                      IN  /\ ~r.panicked
                          /\ \A k \in DOMAIN layout :
                                LET i == find(elements, layout[k].id)
                                    hit == within(Bounds_new(layout[k].position,
                                                             layout[k].size),
                                                  position)
                                IN  r.elements[i].state =
                                        IF ~hit THEN "Default"
                                        ELSE IF elements[i].state = "Default"
                                        THEN "Hovered"
                                        ELSE elements[i].state
                          /\ \A i \in DOMAIN elements :
                                (\A k \in DOMAIN layout : layout[k].id # elements[i].id)
                                    => r.elements[i] = elements[i]
                          /\ \A k \in 1..(Len(layout) - 1) :
                                hover_pass(Manager(position),
                                           Exchanged(layout, k)).elements
                                    = r.elements

C18_Witness ==
    /\ event.kind = "CursorMoved"
    /\ ~panicked
    /\ mouse_pos = [x |-> 1, y |-> 0]
    /\ Len(visits) = 2
    /\ visits[1].id # visits[2].id
    /\ \A k \in DOMAIN visits : visits[k].op = "hover"
    /\ \A i \in DOMAIN elements : elements[i].state = "Hovered"

\* The manager of a pass, had it been built from an empty EventContext.
ManagerWithout(pos) == [Manager(pos) EXCEPT !.callbacks = <<>>]

\* Both passes end alike for the elements, one of them having run no closure.
SameElements(with, without) ==
    /\ with.elements = without.elements
    /\ with.panicked = without.panicked
    /\ with.visits = without.visits
    /\ without.invoked = <<>>

\* C19: from every manager that can take an event and for every event, the
\* pass leaves the same elements and fails or returns alike whether the
\* manager holds its callbacks or none, and with none it runs no closure; a
\* manager built from an empty EventContext never runs one. Managers built
\* from the same layout start with the same elements, so after the same events
\* they hold the same elements whatever their callbacks.
C19_StatesIgnoreCallbacks ==
    /\ callbacks = <<>> => invoked = <<>>
    /\ ~panicked /\ callbacks # <<>> => \A layout \in Layout :
          /\ \A position \in Position :
                SameElements(hover_pass(Manager(position), layout),
                             hover_pass(ManagerWithout(position), layout))
          /\ \A state \in ButtonState, button \in MouseButton :
                SameElements(
                    mouse_pass(Manager(mouse_pos), layout, state, button),
                    mouse_pass(ManagerWithout(mouse_pos), layout, state, button))

C19_Witness ==
    /\ callbacks = <<>>
    /\ event.kind = "MouseInput"
    /\ ~panicked
    /\ invoked = <<>>
    /\ \E k \in DOMAIN visits : visits[k].op = "click"
    /\ \E i \in DOMAIN elements : elements[i].state = "Clicked"

\* C20: no process() call changes the callback registry: it keeps the length,
\* the entries and the order of the EventContext the manager was built from.
C20_RegistryFixed == [][callbacks' = callbacks]_vars

C20_Witness ==
    /\ event.kind = "MouseInput"
    /\ invoked # <<>>
    /\ callbacks = SubSeq(Registrations, 1, Len(callbacks))
    /\ Len(callbacks) >= 4

\* C21: when a closure panics during a pass, the registries stay consistent:
\* one Element per id, every Element in one of the three states, and no
\* element left Hovered or Clicked by the pass while a closure registered for
\* that transition was never called.
C21_ConsistentAfterFailure ==
    /\ \A i, j \in DOMAIN elements : elements[i].id = elements[j].id => i = j
    /\ \A i \in DOMAIN elements : elements[i].state \in ElementState
    /\ \A k \in DOMAIN visits :
          /\ visits[k].op = "hover" =>
                \A c \in DOMAIN callbacks :
                    callbacks[c] = OnHover(visits[k].id)
                        => Calls(invoked, c, visits[k].id) >= 1
          /\ visits[k].op = "click" =>
                \A c \in DOMAIN callbacks :
                    callbacks[c] = OnClick(visits[k].id)
                        => Calls(invoked, c, visits[k].id) >= 1

\* The step is a process_key() call on a field that was focused.
FocusedKey == call'.op = "process_key" /\ text_field.focused

\* C22: a process_key() call on a TextField that is not focused (after new or
\* unfocus, until the next click) leaves the text as it was, whatever the
\* key.
C22_UnfocusedKeysIgnored ==
    [][call'.op = "process_key" /\ ~text_field.focused
          => text_field'.text = text_field.text]_vars

C22_Witness ==
    /\ call.op = "process_key"
    /\ call.key.kind = "Character"
    /\ ~text_field.focused
    /\ text_field.text = <<"H", "i">>

\* C23: on a focused TextField a Character key appends its characters to the
\* end of the text and the Space key appends one space, so a run of such keys
\* leaves the former text followed by what was typed, in order.
C23_KeysAppend ==
    [][FocusedKey =>
          /\ call'.key.kind = "Character"
                => text_field'.text = text_field.text \o call'.key.text
          /\ call'.key = Named("Space")
                => text_field'.text = text_field.text \o <<" ">>]_vars

C23_Witness ==
    /\ call.op = "process_key"
    /\ call.key = Named("Space")
    /\ text_field.focused
    /\ text_field.text = <<"i", "H", "i", " ">>

\* C24: on a focused TextField Backspace removes the last character and keeps
\* the ones before it, does nothing to an empty text, and every other named
\* key but Space leaves the text as it was.
C24_BackspaceRemovesLast ==
    [][FocusedKey /\ call'.key.kind = "Named" =>
          /\ call'.key.name = "Backspace" /\ text_field.text # <<>>
                => /\ Len(text_field'.text) = Len(text_field.text) - 1
                   /\ \A n \in DOMAIN text_field'.text :
                         text_field'.text[n] = text_field.text[n]
          /\ call'.key.name = "Backspace" /\ text_field.text = <<>>
                => text_field'.text = <<>>
          /\ call'.key.name \notin {"Backspace", "Space"}
                => text_field'.text = text_field.text]_vars

C24_Witness ==
    /\ call = [op |-> "process_key", key |-> Named("Backspace")]
    /\ text_field.focused
    /\ text_field.text = <<"H", "i", " ">>

\* C25: with a fixed layout, after any CursorMoved and MouseInput events an
\* element that is Hovered or Clicked has mouse_pos inside its node's bounds,
\* and no pass clicks an element (running OnClick) with the pointer outside.
C25_ActiveOnlyUnderPointer ==
    /\ \A i \in DOMAIN elements :
          elements[i].state \in {"Hovered", "Clicked"}
              => in_bounds(elements[i].id, mouse_pos)
    /\ \A k \in DOMAIN visits :
          visits[k].op = "click" => in_bounds(visits[k].id, mouse_pos)

\* C26: a pass runs an OnHover closure for a widget only if the pointer has
\* been outside the widget's bounds since the last pass that hovered it:
\* OnHover fires once per entry of the pointer.
C26_HoverOncePerEntry ==
    [][\A n \in DOMAIN invoked' :
          callbacks[invoked'[n].callback].trigger = "OnHover"
              => invoked'[n].widget_id \notin fired]_vars

\* C27: from every manager the fixed layout reaches, a press or release over
\* any layout leaves the same manager (elements, visits, closures run, panic
\* or return) whatever button the event carries as with the Left button.
C27_ButtonIgnored ==
    \A layout \in Layout, state \in ButtonState, pressed \in MouseButton :
        mouse_pass(Manager(mouse_pos), layout, state, pressed)
            = mouse_pass(Manager(mouse_pos), layout, state, "Left")

C27_Witness ==
    /\ event.kind = "MouseInput"
    /\ event.state = "Pressed"
    /\ last_button = "Right"
    /\ invoked # <<>>
    /\ \E i \in DOMAIN elements : elements[i].state = "Clicked"

\* C28: a process() call leaves every Element whose id the event's layout
\* does not name as it was (state and previous_state), and leaves the
\* registry with the same ids in the same places: no Element is removed.
C28_OmittedWidgetsKept ==
    [][/\ Len(elements') = Len(elements)
       /\ \A i \in DOMAIN elements :
             /\ elements'[i].id = elements[i].id
             /\ (\A k \in DOMAIN visits' : visits'[k].id # elements[i].id)
                    => elements'[i] = elements[i]]_vars

C28_Witness ==
    /\ event.kind = "MouseInput"
    /\ event.state = "Released"
    /\ ~panicked
    /\ Len(elements) = 2
    /\ visits # <<>>
    /\ \A k \in DOMAIN visits : visits[k].id = "a"
    /\ \E i \in DOMAIN elements :
          elements[i] = [id |-> "b", previous_state |-> "Hovered", state |-> "Clicked"]

====
